---- MODULE Spec2Model ----
(***************************************************************************)
(* Model of gerbil (hhftechnology/gerbil): main's lifecycle (configuration,*)
(* ensureTailscale, shutdown), the bandwidth accountant                    *)
(* (calculatePeerBandwidth / reportPeerBandwidth), the HTTP status         *)
(* handlers and the tailscale client wrapper they query.                   *)
(*                                                                         *)
(* Source: src/tailscale/client.go.  Lines 1-352 of that file hold package *)
(* tailscale (Client.Status, Client.GetPeerTraffic, ...), lines 353-902    *)
(* hold package main (main, ensureTailscale, the handlers, the accountant).*)
(*                                                                         *)
(* Spec starts where main has started the Reporter goroutine (remote       *)
(* config mode, line 523) and the HTTP server (line 536): ticks and        *)
(* requests interleave with each other and with the daemon, which changes  *)
(* on its own.  A tick or a request that has begun is carried to its end   *)
(* before the next step of anything else is taken; the handlers and the    *)
(* accountant share no state, so this loses no outcome.                    *)
(*                                                                         *)
(* MainSpec starts where main has read its environment and flags (line     *)
(* 474) and follows it to its end; the daemon lists no peers there.        *)
(* URLSpec applies the clean-up of the remote config URL (lines 480-481)   *)
(* to a bounded set of strings.  MeterSpec follows the traffic counters of *)
(* one peer through the cycles of the Reporter.                            *)
(***************************************************************************)
EXTENDS Integers, Sequences, FiniteSets, TLC

(***************************************************************************)
(* Bounds of the model.                                                    *)
(***************************************************************************)
\* largest number of entries in the daemon's peer map
MaxPeers == 2

\* the count of consecutive remote fetches without a usable configuration
\* stops at this number (the loop itself has no ceiling)
MaxFailures == 3

\* largest number of pieces a URL of URLSpec is put together from
MaxPieces == 4

\* public keys of the peers the daemon may list
Keys == {"k1", "k2"}
\* values of a traffic counter (bytes) the daemon may report: zero, the
\* 1000 of the spec's example, and one mebibyte more
Counter == {0, 1000, 1049576}

\* seconds between two ticks of the Reporter (time.NewTicker)
TickSeconds == 10

\* 1024 * 1024, the divisor of calculatePeerBandwidth
BytesPerMB == 1024 * 1024

(***************************************************************************)
(* State.                                                                  *)
(*   daemon       the tailscale daemon as `tailscale status --json` shows  *)
(*                it: mode and the entries of its "Peer" map, in the order *)
(*                the next query iterates them (a peer is abstracted to    *)
(*                its PublicKey; host name, addresses and the online flag  *)
(*                are copied through by the code and not modelled)         *)
(*   lastReadings the reading cache, a function from the cached public     *)
(*                keys to PeerReading                                      *)
(*                Time is measured from the instant of the last cycle that *)
(*                read the clock: the code uses LastChecked only in the    *)
(*                difference now - LastChecked, so a cycle reads the clock *)
(*                as TickSeconds and stores its readings shifted back by   *)
(*                that amount.                                             *)
(*   tick         the accounting cycle the Reporter has just run, while it *)
(*                is about to post the result                              *)
(*   push         how the Reporter's tick ended, once it has ended         *)
(*   resp         the HTTP request that has just been served and its       *)
(*                response                                                 *)
(*   pc           where main is                                            *)
(*   cfg          what the environment and the flags hold: file is what    *)
(*                becomes of reading CONFIG ("none": not set), url the     *)
(*                value of REMOTE_CONFIG, authKey that of TAILSCALE_AUTHKEY*)
(*   remoteConfigURL, tsconfig   main's variables of these names (of       *)
(*                tsconfig only AuthKey is modelled)                       *)
(*   loop         the remote fetch loop: fetched, an attempt has been      *)
(*                made; slept, main has slept since the last attempt;      *)
(*                failures, the attempts in a row that returned an error   *)
(*                or no auth key; err, main's variable err as the last     *)
(*                attempt left it                                          *)
(*   did          what ensureTailscale has done so far                     *)
(*   fatalMsg     the message of logger.Fatal, once it has been called     *)
(*   starts       the commands startTailscaleDaemon has run, in order,     *)
(*                each with whether it succeeded                           *)
(*   logins       the auth keys of the `tailscale up` commands run so far  *)
(*   logouts      the number of `tailscale logout` commands run so far     *)
(*   reporter     the goroutine of periodicBandwidthCheck                  *)
(*   server       the goroutine of http.ListenAndServe                     *)
(*   notifyURL    the global of that name (NOTIFY_URL or -notify)          *)
(*   notified     the calls of notifyPeerChange made so far                *)
(*   meter        the traffic counters of the daemon's peers, where a      *)
(*                specification follows them (MeterSpec): now, as the      *)
(*                traffic queries of the latest cycle found them; snap, as *)
(*                the status snapshot of that cycle showed them; prior,    *)
(*                as the traffic queries of the cycle before found them    *)
(***************************************************************************)
VARIABLES daemon, lastReadings, tick, push, resp,
          pc, cfg, remoteConfigURL, tsconfig, loop, did, fatalMsg,
          starts, logins, logouts, reporter, server,
          notifyURL, notified, meter

\* what no action of main changes
otherVars == <<notifyURL, notified, meter>>

mainVars == <<pc, cfg, remoteConfigURL, tsconfig, loop, did, fatalMsg,
              starts, logins, logouts>>

vars == <<daemon, lastReadings, tick, push, resp,
          pc, cfg, remoteConfigURL, tsconfig, loop, did, fatalMsg,
          starts, logins, logouts, reporter, server,
          notifyURL, notified, meter>>

\* What `tailscale status --json` does:
\*   "down"       the command exits with an error (daemon unreachable)
\*   "garbage"    the command succeeds, its output is not JSON
\*   "needslogin" JSON without a "Self" object
\*   "running"    JSON with a "Self" object
Modes == {"down", "garbage", "needslogin", "running"}

Range(s) == {s[i] : i \in 1..Len(s)}

(***************************************************************************)
(* package tailscale                                                       *)
(***************************************************************************)

\* Client.Status: a failing command is NOT an error, it yields a minimal
\* status (not logged in, no peers); only unparsable output is an error.
Status(d) ==
    CASE d.mode = "down" ->
            [err |-> FALSE, LoggedIn |-> FALSE, Self |-> "nil", Peers |-> <<>>]
      [] d.mode = "garbage" ->
            [err |-> TRUE, LoggedIn |-> FALSE, Self |-> "nil", Peers |-> <<>>]
      [] d.mode = "needslogin" ->
            [err |-> FALSE, LoggedIn |-> FALSE, Self |-> "nil", Peers |-> d.peers]
      [] OTHER ->
            [err |-> FALSE, LoggedIn |-> TRUE, Self |-> "self", Peers |-> d.peers]

\* Client.GetPeerTraffic: a second, separate `tailscale status --json`.  Its
\* outcomes for one key: (0, 0) when the command or the parse fails or the key
\* is not found, otherwise the counters of the first entry with that key in
\* whatever state the daemon is in by then.
GetPeerTraffic(publicKey) ==
    {[rx |-> 0, tx |-> 0]} \cup [rx : Counter, tx : Counter]

(***************************************************************************)
(* package main: the bandwidth accountant                                  *)
(***************************************************************************)

\* bytes / (1024 * 1024) as an exact fraction
ToMB(bytes) == [num |-> bytes, den |-> BytesPerMB]
\* the literal 0 of the first-reading branch
ZeroMB == [num |-> 0, den |-> 1]

PeerBandwidth(publicKey, bytesIn, bytesOut) ==
    [PublicKey |-> publicKey, BytesIn |-> bytesIn, BytesOut |-> bytesOut]

PeerReading(rx, tx, now) ==
    [BytesReceived |-> rx, BytesTransmitted |-> tx, LastChecked |-> now]

\* Delta with the reset test `<= 0` for `< 0`
DeltaResetOnEqual(current, last) ==
    LET diff == current - last
    IN  IF diff <= 0 THEN current ELSE diff

\* Delta reporting nothing for a direction that was reset
DeltaZeroOnReset(current, last) ==
    LET diff == current - last
    IN  IF diff < 0 THEN 0 ELSE diff

\* Delta without the reset handling
DeltaNoReset(current, last) == current - last

\* the "Handle counter wraparound" step for one direction
Delta(current, last) ==
    LET diff == current - last
    IN  IF diff < 0 THEN current ELSE diff

\* PeerStep without the test of the elapsed time
PeerStepAnyTime(acc, publicKey, traffic, now) ==
    LET currentReading == PeerReading(traffic.rx, traffic.tx, now)
        exists == publicKey \in DOMAIN acc.readings
        lastReading == acc.readings[publicKey]
        out == IF exists
               THEN Append(acc.out,
                      PeerBandwidth(publicKey,
                        ToMB(Delta(currentReading.BytesReceived,
                                   lastReading.BytesReceived)),
                        ToMB(Delta(currentReading.BytesTransmitted,
                                   lastReading.BytesTransmitted))))
               ELSE Append(acc.out, PeerBandwidth(publicKey, ZeroMB, ZeroMB))
    IN  [readings |-> [k \in DOMAIN acc.readings \cup {publicKey} |->
                         IF k = publicKey THEN currentReading ELSE acc.readings[k]],
         out |-> out]

\* PeerStep reporting the absolute counters of a peer it sees for the first
\* time
PeerStepPhantom(acc, publicKey, traffic, now) ==
    LET currentReading == PeerReading(traffic.rx, traffic.tx, now)
        exists == publicKey \in DOMAIN acc.readings
        lastReading == acc.readings[publicKey]
        timeDiff == currentReading.LastChecked - lastReading.LastChecked
        out == IF exists
               THEN IF timeDiff > 0
                    THEN Append(acc.out,
                           PeerBandwidth(publicKey,
                             ToMB(Delta(currentReading.BytesReceived,
                                        lastReading.BytesReceived)),
                             ToMB(Delta(currentReading.BytesTransmitted,
                                        lastReading.BytesTransmitted))))
                    ELSE acc.out
               ELSE Append(acc.out,
                      PeerBandwidth(publicKey, ToMB(currentReading.BytesReceived),
                                    ToMB(currentReading.BytesTransmitted)))
    IN  [readings |-> [k \in DOMAIN acc.readings \cup {publicKey} |->
                         IF k = publicKey THEN currentReading ELSE acc.readings[k]],
         out |-> out]

\* one iteration of `for _, peer := range status.Peers`
PeerStep(acc, publicKey, traffic, now) ==
    LET currentReading == PeerReading(traffic.rx, traffic.tx, now)
        exists == publicKey \in DOMAIN acc.readings
        lastReading == acc.readings[publicKey]
        timeDiff == currentReading.LastChecked - lastReading.LastChecked
        out == IF exists
               THEN IF timeDiff > 0
                    THEN Append(acc.out,
                           PeerBandwidth(publicKey,
                             ToMB(Delta(currentReading.BytesReceived,
                                        lastReading.BytesReceived)),
                             ToMB(Delta(currentReading.BytesTransmitted,
                                        lastReading.BytesTransmitted))))
                    ELSE acc.out
               ELSE Append(acc.out, PeerBandwidth(publicKey, ZeroMB, ZeroMB))
    IN  [readings |-> [k \in DOMAIN acc.readings \cup {publicKey} |->
                         IF k = publicKey THEN currentReading ELSE acc.readings[k]],
         out |-> out]

RECURSIVE PeerLoop(_, _, _, _, _)
PeerLoop(acc, peers, traffic, i, now) ==
    IF i > Len(peers) THEN acc
    ELSE PeerLoop(PeerStep(acc, peers[i], traffic[i], now), peers, traffic, i + 1, now)

\* Prune that removes nothing
PruneNothing(readings, peers) == readings

\* the "Clean up old peers" loops
Prune(readings, peers) ==
    [k \in {q \in DOMAIN readings : q \in Range(peers)} |-> readings[k]]

\* time.Now() of a cycle: the ticker fired TickSeconds after the instant
\* time is measured from
Now == TickSeconds

\* readings as seen from the instant `now`
Rebase(readings, now) ==
    [k \in DOMAIN readings |-> [readings[k] EXCEPT !.LastChecked = @ - now]]

\* calculatePeerBandwidth, given the results of its queries
calculatePeerBandwidth(status, traffic, readings) ==
    IF status.err
    THEN [err |-> TRUE, out |-> <<>>, readings |-> readings]
    ELSE LET now == Now
             acc == PeerLoop([readings |-> readings, out |-> <<>>],
                             status.Peers, traffic, 1, now)
         IN  [err |-> FALSE, out |-> acc.out,
              readings |-> Rebase(Prune(acc.readings, status.Peers), now)]

\* notifyPeerChange: nothing without a notify URL, otherwise one POST of
\* {action, publicKey} to it, whose failure is only logged.  The value is the
\* list of calls with this one added.  No function of the program calls
\* notifyPeerChange: calculatePeerBandwidth, which finds the new and the
\* pruned peers, does not, so no action changes notified.
notifyPeerChange(calls, url, action, publicKey) ==
    Append(calls, [action |-> action, publicKey |-> publicKey,
                   posts |-> IF url = <<>> THEN 0 ELSE 1])

\* an accounting cycle: before is lastReadings as the cycle found it, peers
\* the snapshot (status.Peers), traffic the GetPeerTraffic result of each
\* snapshot entry, calcErr whether calculatePeerBandwidth returned an error,
\* out the list it returned
Tick(before, peers, traffic, calcErr, out) ==
    [ran |-> TRUE, before |-> before, peers |-> peers, traffic |-> traffic,
     calcErr |-> calcErr, out |-> out]
NoTick == [ran |-> FALSE, before |-> <<>>, peers |-> <<>>, traffic |-> <<>>,
           calcErr |-> FALSE, out |-> <<>>]

\* the end of a tick: post is what became of the POST ("none": it was never
\* attempted), posts the number of http.Post calls the tick made, err whether
\* reportPeerBandwidth returned an error
Push(post) == [done |-> TRUE, post |-> post,
               posts |-> IF post = "none" THEN 0 ELSE 1, err |-> post # "ok"]
NoPush == [done |-> FALSE, post |-> "none", posts |-> 0, err |-> FALSE]

\* a response body: the text of a plain response, or the fields of the JSON
\* document ("json") the handler encodes
Body(text, loggedIn, self, peerCount, peers) ==
    [text |-> text, loggedIn |-> loggedIn, self |-> self,
     peerCount |-> peerCount, peers |-> peers]
Text(text) == Body(text, FALSE, "nil", 0, <<>>)

\* served: a request has been handled; panic: the handler panicked before it
\* wrote anything (net/http recovers, logs and closes the connection, the
\* client gets no response); code: the status written otherwise
Response(path, method, panic, code, body) ==
    [served |-> TRUE, path |-> path, method |-> method,
     panic |-> panic, code |-> code, body |-> body]
NoResp == [served |-> FALSE, path |-> "", method |-> "",
           panic |-> FALSE, code |-> 0, body |-> Text("")]

\* nothing is under way: the Reporter waits for its ticker, no request is
\* being answered
Quiet == tick = NoTick /\ push = NoPush /\ resp = NoResp

\* outcomes of http.Post and of the status test in reportPeerBandwidth
PostOutcomes == {"ok", "transport_error", "non_ok_status"}

\* the goroutines main starts exist from the go statements (lines 523, 535)
\* until the process ends
Alive(p) == p \in {"serving", "logout"}

\* periodicBandwidthCheck giving up after a tick that returned an error
periodicBandwidthCheckStopOnError(err) == IF err THEN "stopped" ELSE "running"

\* the body of the loop of periodicBandwidthCheck: the error of a tick is
\* logged, the loop goes on to the next firing of the ticker
periodicBandwidthCheck(err) == "running"

\* no counters are followed
NoMeter == [now |-> <<>>, snap |-> <<>>, prior |-> <<>>]

\* the counters of a peer do not decrease from a to b
Grown(a, b) == a.rx <= b.rx /\ a.tx <= b.tx

\* The counters behind the queries of one cycle.  Where they are followed,
\* the daemon's counters only grow: the status snapshot shows them as they
\* are when Status() runs (snap), each GetPeerTraffic, a query of its own
\* made after the snapshot, returns them as they are by then (now) or
\* (0, 0) when it fails.  Where they are not followed, any result goes.
MeterAfter(m, status, traffic) ==
    IF m = NoMeter \/ status.err
    THEN {m}
    ELSE {n \in [now : [DOMAIN m.now -> [rx : Counter, tx : Counter]],
                 snap : [DOMAIN m.now -> [rx : Counter, tx : Counter]],
                 prior : {m.now}] :
            /\ \A k \in DOMAIN m.now :
                 Grown(m.now[k], n.snap[k]) /\ Grown(n.snap[k], n.now[k])
            /\ \A i \in 1..Len(status.Peers) :
                 /\ status.Peers[i] \in DOMAIN m.now
                 /\ traffic[i] \in {[rx |-> 0, tx |-> 0], n.now[status.Peers[i]]}}

\* reportPeerBandwidth, first half: the ticker fires and the tick runs
\* calculatePeerBandwidth
reportPeerBandwidth ==
    /\ Quiet
    /\ reporter = "running" /\ Alive(pc)
    /\ LET status == Status(daemon)
       IN  \E traffic \in [1..Len(status.Peers) -> [rx : Counter, tx : Counter]] :
             LET r == calculatePeerBandwidth(status, traffic, lastReadings)
             IN  /\ \A i \in 1..Len(status.Peers) :
                       traffic[i] \in GetPeerTraffic(status.Peers[i])
                 /\ meter' \in MeterAfter(meter, status, traffic)
                 /\ lastReadings' = r.readings
                 /\ tick' = Tick(lastReadings, status.Peers, traffic, r.err, r.out)
    /\ UNCHANGED <<daemon, push, resp, mainVars, reporter, server>>
    /\ UNCHANGED <<notifyURL, notified>>

\* reportPeerBandwidth putting the cache back when the POST did not succeed
lastReadingsRestoredOnFailure(readings, before, post) ==
    IF post \in {"transport_error", "non_ok_status"} THEN before ELSE readings

\* the cache once reportPeerBandwidth returns: nothing after the call of
\* calculatePeerBandwidth reaches lastReadings, whatever becomes of the POST
lastReadingsAfterPost(readings, before, post) == readings

\* reportPeerBandwidth, second half: return the error of the calculation, or
\* marshal the list, post it and look at the response status
reportPeerBandwidthPost ==
    /\ tick.ran
    /\ \E post \in PostOutcomes \cup {"none"} :
         /\ post = "none" <=> tick.calcErr
         /\ push' = Push(post)
         /\ lastReadings' = lastReadingsAfterPost(lastReadings, tick.before, post)
    /\ tick' = NoTick
    /\ reporter' = periodicBandwidthCheck(push'.err)
    /\ UNCHANGED <<daemon, resp, mainVars, server>>
    /\ UNCHANGED otherVars

(***************************************************************************)
(* package main: the HTTP handlers.  Each yields [panic, code, body] from  *)
(* the result of its own Status() query.                                   *)
(***************************************************************************)
StatusOK == 200
StatusInternalServerError == 500
StatusNotImplemented == 501
StatusMethodNotAllowed == 405
StatusServiceUnavailable == 503

Methods == {"GET", "POST", "DELETE", "PUT"}

Reply(code, body) == [panic |-> FALSE, code |-> code, body |-> body]
\* a nil pointer dereference before anything is written
Panic == [panic |-> TRUE, code |-> 0, body |-> Text("")]

handleGetPeers(status) ==
    IF status.err
    THEN Reply(StatusInternalServerError, Text("Failed to get Tailscale status"))
    ELSE Reply(StatusOK, Body("json", FALSE, "nil", 0, status.Peers))

handleStatus(status) ==
    IF status.err
    THEN Reply(StatusInternalServerError, Text("Failed to get Tailscale status"))
    ELSE IF status.Self = "nil"
         THEN Panic    \* status.Self.Hostname with status.Self == nil
         ELSE Reply(StatusOK, Body("json", status.LoggedIn, status.Self,
                                   Len(status.Peers), <<>>))

\* handleHealth without the LoggedIn test
handleHealthAnyStatus(status) ==
    IF status.err
    THEN Reply(StatusServiceUnavailable, Text("Unhealthy"))
    ELSE Reply(StatusOK, Text("OK"))

handleHealth(status) ==
    IF status.err
    THEN Reply(StatusServiceUnavailable, Text("Unhealthy"))
    ELSE IF ~status.LoggedIn
         THEN Reply(StatusServiceUnavailable, Text("Not logged in"))
         ELSE Reply(StatusOK, Text("OK"))

\* handlePeer answering every verb but GET with 501
handlePeerNoDefault(method, status) ==
    CASE method = "GET" -> handleGetPeers(status)
      [] OTHER ->
           Reply(StatusNotImplemented, Text("Peers are managed by Tailscale control plane"))

handlePeer(method, status) ==
    CASE method = "GET" -> handleGetPeers(status)
      [] method = "POST" ->
           Reply(StatusNotImplemented, Text("Peers are managed by Tailscale control plane"))
      [] method = "DELETE" ->
           Reply(StatusNotImplemented, Text("Peers are managed by Tailscale control plane"))
      [] OTHER -> Reply(StatusMethodNotAllowed, Text("Method not allowed"))

\* The HTTP server serves one request.  main registers four routes; only
\* handlePeer looks at the verb.
ServePeer ==
    /\ Quiet
    /\ server = "listening" /\ Alive(pc)
    /\ \E method \in Methods :
         LET r == handlePeer(method, Status(daemon))
         IN  resp' = Response("/peer", method, r.panic, r.code, r.body)
    /\ UNCHANGED <<daemon, lastReadings, tick, push, mainVars, reporter, server>>
    /\ UNCHANGED otherVars

ServePeers ==
    /\ Quiet
    /\ server = "listening" /\ Alive(pc)
    /\ \E method \in Methods :
         LET r == handleGetPeers(Status(daemon))
         IN  resp' = Response("/peers", method, r.panic, r.code, r.body)
    /\ UNCHANGED <<daemon, lastReadings, tick, push, mainVars, reporter, server>>
    /\ UNCHANGED otherVars

ServeStatus ==
    /\ Quiet
    /\ server = "listening" /\ Alive(pc)
    /\ \E method \in Methods :
         LET r == handleStatus(Status(daemon))
         IN  resp' = Response("/status", method, r.panic, r.code, r.body)
    /\ UNCHANGED <<daemon, lastReadings, tick, push, mainVars, reporter, server>>
    /\ UNCHANGED otherVars

ServeHealth ==
    /\ Quiet
    /\ server = "listening" /\ Alive(pc)
    /\ \E method \in Methods :
         LET r == handleHealth(Status(daemon))
         IN  resp' = Response("/health", method, r.panic, r.code, r.body)
    /\ UNCHANGED <<daemon, lastReadings, tick, push, mainVars, reporter, server>>
    /\ UNCHANGED otherVars

\* the tick or the request is over: periodicBandwidthCheck has logged the
\* error, if any, and is back at its ticker; the response is sent
Idle ==
    /\ push.done \/ resp.served
    /\ push' = NoPush
    /\ resp' = NoResp
    /\ UNCHANGED <<daemon, lastReadings, tick, mainVars, reporter, server>>
    /\ UNCHANGED otherVars

(***************************************************************************)
(* The daemon, an external process: it changes on its own.                 *)
(***************************************************************************)
DaemonSetMode ==
    /\ Quiet
    /\ \E m \in Modes \ {daemon.mode} : daemon' = [daemon EXCEPT !.mode = m]
    /\ UNCHANGED <<lastReadings, tick, push, resp, mainVars, reporter, server>>
    /\ UNCHANGED otherVars

PeerJoin ==
    /\ Quiet
    /\ Len(daemon.peers) < MaxPeers
    /\ \E k \in Keys : daemon' = [daemon EXCEPT !.peers = Append(@, k)]
    /\ UNCHANGED <<lastReadings, tick, push, resp, mainVars, reporter, server>>
    /\ UNCHANGED otherVars

PeerLeave ==
    /\ Quiet
    /\ \E i \in 1..Len(daemon.peers) :
         daemon' = [daemon EXCEPT !.peers =
                      SubSeq(@, 1, i - 1) \o SubSeq(@, i + 1, Len(@))]
    /\ UNCHANGED <<lastReadings, tick, push, resp, mainVars, reporter, server>>
    /\ UNCHANGED otherVars

(***************************************************************************)
(* package main: main, its configuration sources and ensureTailscale.      *)
(***************************************************************************)

\* A URL is a string, and a string is the sequence of its characters.
GetConfigSuffix ==
    <<"/", "g", "e", "r", "b", "i", "l", "/",
      "g", "e", "t", "-", "c", "o", "n", "f", "i", "g">>
Slash == <<"/">>
\* a base URL that ends in neither a slash nor the suffix
BaseURL == <<"h">>

\* strings.TrimSuffix
TrimSuffix(s, suffix) ==
    IF /\ Len(s) >= Len(suffix)
       /\ SubSeq(s, Len(s) - Len(suffix) + 1, Len(s)) = suffix
    THEN SubSeq(s, 1, Len(s) - Len(suffix))
    ELSE s

\* the clean-up of the remote config URL: the suffix is cut first, a single
\* slash second
CleanURL(u) == TrimSuffix(TrimSuffix(u, GetConfigSuffix), Slash)

\* values of REMOTE_CONFIG in MainSpec: not set, a lone slash, and the four
\* spellings of one base URL
RemoteURLs ==
    {<<>>, Slash, BaseURL, BaseURL \o Slash, BaseURL \o GetConfigSuffix,
     BaseURL \o GetConfigSuffix \o Slash}

\* the pieces the URLs of URLSpec are put together from
Pieces == {BaseURL, Slash, GetConfigSuffix}

RECURSIVE Join(_)
Join(ps) == IF ps = <<>> THEN <<>> ELSE Head(ps) \o Join(Tail(ps))

URLInputs ==
    {Join(ps) : ps \in UNION {[1..n -> Pieces] : n \in 0..MaxPieces}}

\* the auth key of a configuration: absent (the zero value) or present
AuthKeys == {"", "tskey"}

\* what CONFIG names: nothing, a file that cannot be opened or read, a file
\* that is not JSON, a JSON document without "authKey", one with it
ConfigFiles == {"none", "unreadable", "malformed", "no_authkey", "with_authkey"}

\* loadConfig: every error returns the zero TailscaleConfig with it; a
\* document that decodes is returned as it is
loadConfig(file) ==
    CASE file \in {"unreadable", "malformed"} -> [AuthKey |-> "", err |-> TRUE]
      [] file = "with_authkey" -> [AuthKey |-> "tskey", err |-> FALSE]
      [] OTHER -> [AuthKey |-> "", err |-> FALSE]

\* what a GET of the remote configuration comes to: the request fails, the
\* body cannot be read, json.Unmarshal returns an error, or it does not (the
\* status code of the response is never looked at)
FetchKinds == {"transport_error", "read_error", "undecodable", "decoded"}

\* loadRemoteConfig: a failing request or read returns the zero
\* TailscaleConfig and the error; after that it returns whatever
\* json.Unmarshal left in the config (key) together with Unmarshal's error
loadRemoteConfig(kind, key) ==
    CASE kind \in {"transport_error", "read_error"} -> [AuthKey |-> "", err |-> TRUE]
      [] kind = "undecodable" -> [AuthKey |-> key, err |-> TRUE]
      [] OTHER -> [AuthKey |-> key, err |-> FALSE]

\* the remote loop without its condition: whatever the first fetch returns
\* is used
LoopAgainNever(config) == FALSE

\* the condition of the remote loop: for tsconfig.AuthKey == ""
LoopAgain(config) == config.AuthKey = ""

\* where main is after the loop condition has been evaluated
AfterLoopTest(config) == IF LoopAgain(config) THEN "fetch" ELSE "ensure"

\* ensureTailscale starting the daemon without looking whether it runs
isTailscaleDaemonRunningNever(d) == FALSE

\* isTailscaleDaemonRunning: `tailscale status --json` exits without error
isTailscaleDaemonRunning(d) == d.mode # "down"

\* the commands of startTailscaleDaemon in the order it tries them
StartCommands == <<"tailscaled", "systemctl", "service">>

\* the first n commands with their outcomes
Tried(n, ok) == [i \in 1..n |-> [cmd |-> StartCommands[i], ok |-> ok[i]]]

\* startTailscaleDaemon without its fallbacks
startTailscaleDaemonNoFallback(ok) ==
    [tried |-> Tried(1, ok), err |-> ~ok[1]]

\* startTailscaleDaemon, ok[i] telling whether command i succeeds when run:
\* each command is run only if the one before it failed, the error is that
\* of the last one
startTailscaleDaemon(ok) ==
    IF ok[1] THEN [tried |-> Tried(1, ok), err |-> FALSE]
    ELSE IF ok[2] THEN [tried |-> Tried(2, ok), err |-> FALSE]
    ELSE [tried |-> Tried(3, ok), err |-> ~ok[3]]

\* ensureTailscale logging in whatever the status says
NeedsLoginAlways(status) == TRUE

\* ensureTailscale: if !status.LoggedIn
NeedsLogin(status) == ~status.LoggedIn

\* ensureTailscale going on after a `tailscale up` that failed
LoginErrIgnored(ok) == FALSE

\* ensureTailscale: the error of the `tailscale up` command
LoginErr(ok) == ~ok

\* main going on to start its goroutines after ensureTailscale failed
AfterEnsureIgnored(err, to) == IF err THEN "ready" ELSE to

\* where main is after a step of ensureTailscale: an error is returned to
\* main, which calls logger.Fatal; otherwise the step named to is next
AfterEnsure(err, to) == IF err THEN "fatal" ELSE to

\* main starting the Reporter in no mode at all
StartReporterNever(url) == FALSE

\* main: if remoteConfigURL != "" { go periodicBandwidthCheck(...) }
StartReporter(url) == url # <<>>

\* logger.Fatal: the message is logged and the process exits
Fatal(msg) ==
    /\ pc' = "fatal"
    /\ fatalMsg' = msg

\* the steps of main and of ensureTailscale
Bootstrap == {"start", "load", "fetch", "sleep", "ensure", "auth", "verify", "ready"}

Min(a, b) == IF a < b THEN a ELSE b

\* main cleans up the remote config URL
CleanRemoteURL ==
    /\ pc = "start"
    /\ remoteConfigURL' = CleanURL(remoteConfigURL)
    /\ pc' = "load"
    /\ UNCHANGED <<daemon, lastReadings, tick, push, resp, cfg, tsconfig, loop,
                   did, fatalMsg, starts, logins, logouts, reporter, server>>
    /\ UNCHANGED otherVars

\* main picks its configuration source: the file if CONFIG is set, else the
\* remote loop if the cleaned URL is not empty, else the auth key it was given
LoadConfig ==
    /\ pc = "load"
    /\ IF cfg.file # "none"
       THEN LET r == loadConfig(cfg.file)
            IN  /\ tsconfig' = [AuthKey |-> r.AuthKey]
                /\ IF r.err
                   THEN Fatal("Failed to load configuration")
                   ELSE pc' = "ensure" /\ UNCHANGED fatalMsg
       ELSE IF remoteConfigURL # <<>>
       THEN /\ pc' = AfterLoopTest(tsconfig)
            /\ UNCHANGED <<tsconfig, fatalMsg>>
       ELSE /\ tsconfig' = [AuthKey |-> cfg.authKey]
            /\ IF cfg.authKey = ""
               THEN Fatal("You must provide either a config file, remote config URL, or Tailscale auth key")
               ELSE pc' = "ensure" /\ UNCHANGED fatalMsg
    /\ UNCHANGED <<daemon, lastReadings, tick, push, resp, cfg, remoteConfigURL,
                   loop, did, starts, logins, logouts, reporter, server>>
    /\ UNCHANGED otherVars

\* one pass of the remote loop: tsconfig and err are both assigned from
\* loadRemoteConfig; on an error main goes to sleep, otherwise it is back at
\* the loop condition at once
FetchRemote ==
    /\ pc = "fetch"
    /\ \E kind \in FetchKinds, key \in AuthKeys :
         LET r == loadRemoteConfig(kind, key)
             failed == r.err \/ r.AuthKey = ""
         IN  /\ tsconfig' = [AuthKey |-> r.AuthKey]
             /\ loop' = [fetched |-> TRUE, slept |-> FALSE,
                         failures |-> IF failed
                                      THEN Min(loop.failures + 1, MaxFailures)
                                      ELSE 0,
                         err |-> r.err]
             /\ pc' = IF r.err THEN "sleep" ELSE AfterLoopTest(tsconfig')
    /\ UNCHANGED <<daemon, lastReadings, tick, push, resp, cfg, remoteConfigURL,
                   did, fatalMsg, starts, logins, logouts, reporter, server>>
    /\ UNCHANGED otherVars

\* time.Sleep(5 * time.Second); continue
SleepRetry ==
    /\ pc = "sleep"
    /\ loop' = [loop EXCEPT !.slept = TRUE]
    /\ pc' = AfterLoopTest(tsconfig)
    /\ UNCHANGED <<daemon, lastReadings, tick, push, resp, cfg, remoteConfigURL,
                   tsconfig, did, fatalMsg, starts, logins, logouts, reporter,
                   server>>
    /\ UNCHANGED otherVars

\* ensureTailscale, first step: start the daemon unless it is running
EnsureDaemon ==
    /\ pc = "ensure"
    /\ IF isTailscaleDaemonRunning(daemon)
       THEN /\ did' = did \cup {"daemon_running"}
            /\ pc' = "auth"
            /\ UNCHANGED <<starts, fatalMsg>>
       ELSE \E ok \in [1..3 -> BOOLEAN] :
              LET r == startTailscaleDaemon(ok)
              IN  /\ starts' = r.tried
                  /\ did' = did \cup {IF r.err THEN "start_failed" ELSE "daemon_started"}
                  /\ pc' = AfterEnsure(r.err, "auth")
                  /\ fatalMsg' = IF pc' = "fatal"
                                 THEN "Failed to ensure Tailscale: failed to start tailscaled"
                                 ELSE fatalMsg
    /\ UNCHANGED <<daemon, lastReadings, tick, push, resp, cfg, remoteConfigURL,
                   tsconfig, loop, logins, logouts, reporter, server>>
    /\ UNCHANGED otherVars

\* ensureTailscale, second step: query the status and, if it says not
\* logged in, run `tailscale up --authkey config.AuthKey ...`; a command
\* that succeeds has logged the node in
Authenticate ==
    /\ pc = "auth"
    /\ LET status == Status(daemon)
       IN  IF status.err
           THEN /\ did' = did \cup {"status_failed"}
                /\ pc' = AfterEnsure(TRUE, "verify")
                /\ fatalMsg' = IF pc' = "fatal"
                               THEN "Failed to ensure Tailscale: failed to get Tailscale status"
                               ELSE fatalMsg
                /\ UNCHANGED <<daemon, logins>>
           ELSE IF NeedsLogin(status)
           THEN \E ok \in BOOLEAN :
                  /\ logins' = Append(logins, tsconfig.AuthKey)
                  /\ daemon' = IF ok THEN [daemon EXCEPT !.mode = "running"] ELSE daemon
                  /\ did' = did \cup {IF ok THEN "login_ok" ELSE "login_failed"}
                  /\ pc' = AfterEnsure(LoginErr(ok), "verify")
                  /\ fatalMsg' = IF pc' = "fatal"
                                 THEN "Failed to ensure Tailscale: failed to login to Tailscale"
                                 ELSE fatalMsg
           ELSE /\ did' = did \cup {"already_logged_in"}
                /\ pc' = "verify"
                /\ UNCHANGED <<daemon, logins, fatalMsg>>
    /\ UNCHANGED <<lastReadings, tick, push, resp, cfg, remoteConfigURL,
                   tsconfig, loop, starts, logouts, reporter, server>>
    /\ UNCHANGED otherVars

\* ensureTailscale, last step: query the status again; Self is only logged
Verify ==
    /\ pc = "verify"
    /\ LET status == Status(daemon)
       IN  /\ did' = did \cup {IF status.err THEN "verify_failed" ELSE "verified"}
           /\ pc' = AfterEnsure(status.err, "ready")
           /\ fatalMsg' = IF pc' = "fatal"
                          THEN "Failed to ensure Tailscale: failed to verify Tailscale status"
                          ELSE fatalMsg
    /\ UNCHANGED <<daemon, lastReadings, tick, push, resp, cfg, remoteConfigURL,
                   tsconfig, loop, starts, logins, logouts, reporter, server>>
    /\ UNCHANGED otherVars

\* main starts the Reporter if it has a remote config URL, registers the
\* routes, starts the HTTP server (which may fail to bind: that is logged)
\* and waits for a signal
StartServices ==
    /\ pc = "ready"
    /\ reporter' = IF StartReporter(remoteConfigURL) THEN "running" ELSE "off"
    /\ \E bound \in BOOLEAN : server' = IF bound THEN "listening" ELSE "failed"
    /\ pc' = "serving"
    /\ UNCHANGED <<daemon, lastReadings, tick, push, resp, cfg, remoteConfigURL,
                   tsconfig, loop, did, fatalMsg, starts, logins, logouts>>
    /\ UNCHANGED otherVars

\* SIGINT or SIGTERM before signal.Notify has been called: the process ends
Interrupt ==
    /\ pc \in Bootstrap
    /\ pc' = "killed"
    /\ UNCHANGED <<daemon, lastReadings, tick, push, resp, cfg, remoteConfigURL,
                   tsconfig, loop, did, fatalMsg, starts, logins, logouts,
                   reporter, server>>
    /\ UNCHANGED otherVars

\* SIGINT or SIGTERM arrives on sigCh
Signal ==
    /\ Quiet
    /\ pc = "serving"
    /\ pc' = "logout"
    /\ UNCHANGED <<daemon, lastReadings, tick, push, resp, cfg, remoteConfigURL,
                   tsconfig, loop, did, fatalMsg, starts, logins, logouts,
                   reporter, server>>
    /\ UNCHANGED otherVars

\* main running the logout again for as long as it fails
AfterLogoutRetry(err) == IF err THEN "logout" ELSE "exited"

\* where main is after tsClient.Logout(): its error is logged, main returns
AfterLogout(err) == "exited"

\* tsClient.Logout(): `tailscale logout`, its error is logged; main returns
Logout ==
    /\ Quiet
    /\ pc = "logout"
    /\ logouts' = logouts + 1
    /\ \E ok \in BOOLEAN :
         /\ daemon' = IF ok THEN [daemon EXCEPT !.mode = "needslogin"] ELSE daemon
         /\ pc' = AfterLogout(~ok)
    /\ UNCHANGED <<lastReadings, tick, push, resp, cfg, remoteConfigURL,
                   tsconfig, loop, did, fatalMsg, starts, logins, reporter, server>>
    /\ UNCHANGED otherVars

\* Spec begins in a state MainSpec reaches: remote mode, the daemon was
\* running and logged in, both goroutines have been started
Init ==
    /\ daemon \in [mode : Modes, peers : {<<>>}]
    /\ lastReadings = <<>>
    /\ tick = NoTick
    /\ push = NoPush
    /\ resp = NoResp
    /\ pc = "serving"
    /\ cfg = [file |-> "none", url |-> BaseURL, authKey |-> ""]
    /\ remoteConfigURL = BaseURL
    /\ tsconfig = [AuthKey |-> "tskey"]
    /\ loop = [fetched |-> TRUE, slept |-> FALSE, failures |-> 0, err |-> FALSE]
    /\ did = {"daemon_running", "already_logged_in", "verified"}
    /\ fatalMsg = ""
    /\ starts = <<>>
    /\ logins = <<>>
    /\ logouts = 0
    /\ reporter = "running"
    /\ server = "listening"
    /\ notifyURL = BaseURL
    /\ notified = <<>>
    /\ meter = NoMeter

Next ==
    \/ reportPeerBandwidth
    \/ reportPeerBandwidthPost
    \/ ServePeer
    \/ ServePeers
    \/ ServeStatus
    \/ ServeHealth
    \/ Idle
    \/ DaemonSetMode
    \/ PeerJoin
    \/ PeerLeave

Spec == Init /\ [][Next]_vars

\* main as the process starts: the environment and the flags have been read
MainInit ==
    /\ daemon \in [mode : Modes, peers : {<<>>}]
    /\ lastReadings = <<>>
    /\ tick = NoTick
    /\ push = NoPush
    /\ resp = NoResp
    /\ pc = "start"
    /\ cfg \in [file : ConfigFiles, url : RemoteURLs, authKey : AuthKeys]
    /\ remoteConfigURL = cfg.url
    /\ tsconfig = [AuthKey |-> ""]
    /\ loop = [fetched |-> FALSE, slept |-> FALSE, failures |-> 0, err |-> FALSE]
    /\ did = {}
    /\ fatalMsg = ""
    /\ starts = <<>>
    /\ logins = <<>>
    /\ logouts = 0
    /\ reporter = "off"
    /\ server = "off"
    /\ notifyURL \in {<<>>, BaseURL}
    /\ notified = <<>>
    /\ meter = NoMeter

MainNext ==
    \/ CleanRemoteURL
    \/ LoadConfig
    \/ FetchRemote
    \/ SleepRetry
    \/ EnsureDaemon
    \/ Authenticate
    \/ Verify
    \/ StartServices
    \/ Interrupt
    \/ Signal
    \/ Logout
    \/ reportPeerBandwidth
    \/ reportPeerBandwidthPost
    \/ ServePeer
    \/ ServePeers
    \/ ServeStatus
    \/ ServeHealth
    \/ Idle
    \/ DaemonSetMode

MainSpec == MainInit /\ [][MainNext]_vars

\* The goroutines are scheduled independently of one another: a tick or a
\* request that has begun comes to its end, and main, once it has its
\* signal, gets to run its logout however often the ticker fires or
\* requests arrive.
MainFairness ==
    /\ WF_vars(reportPeerBandwidthPost)
    /\ WF_vars(Idle)
    /\ SF_vars(Logout)

MainFairSpec == MainSpec /\ MainFairness

\* the clean-up of the remote config URL applied to the strings of URLInputs
URLInit ==
    /\ daemon = [mode |-> "running", peers |-> <<>>]
    /\ lastReadings = <<>>
    /\ tick = NoTick
    /\ push = NoPush
    /\ resp = NoResp
    /\ pc = "start"
    /\ cfg \in [file : {"none"}, url : URLInputs, authKey : {""}]
    /\ remoteConfigURL = cfg.url
    /\ tsconfig = [AuthKey |-> ""]
    /\ loop = [fetched |-> FALSE, slept |-> FALSE, failures |-> 0, err |-> FALSE]
    /\ did = {}
    /\ fatalMsg = ""
    /\ starts = <<>>
    /\ logins = <<>>
    /\ logouts = 0
    /\ reporter = "off"
    /\ server = "off"
    /\ notifyURL = BaseURL
    /\ notified = <<>>
    /\ meter = NoMeter

URLNext == CleanRemoteURL

URLSpec == URLInit /\ [][URLNext]_vars

\* the peers whose counters MeterSpec follows
MeterKeys == {"k1"}

\* The Reporter while the daemon lists one peer that stays, with the
\* counters of that peer followed from one cycle to the next.
MeterInit ==
    /\ daemon = [mode |-> "running", peers |-> <<"k1">>]
    /\ lastReadings = <<>>
    /\ tick = NoTick
    /\ push = NoPush
    /\ resp = NoResp
    /\ pc = "serving"
    /\ cfg = [file |-> "none", url |-> BaseURL, authKey |-> ""]
    /\ remoteConfigURL = BaseURL
    /\ tsconfig = [AuthKey |-> "tskey"]
    /\ loop = [fetched |-> TRUE, slept |-> FALSE, failures |-> 0, err |-> FALSE]
    /\ did = {"daemon_running", "already_logged_in", "verified"}
    /\ fatalMsg = ""
    /\ starts = <<>>
    /\ logins = <<>>
    /\ logouts = 0
    /\ reporter = "running"
    /\ server = "listening"
    /\ notifyURL = BaseURL
    /\ notified = <<>>
    /\ \E c \in [MeterKeys -> [rx : Counter, tx : Counter]] :
         meter = [now |-> c, snap |-> c, prior |-> c]

MeterNext ==
    \/ reportPeerBandwidth
    \/ reportPeerBandwidthPost
    \/ Idle

MeterSpec == MeterInit /\ [][MeterNext]_vars

(***************************************************************************)
(* Properties.                                                             *)
(***************************************************************************)

\* an accounting cycle has just run and obtained a snapshot
CycleDone == tick.ran /\ ~tick.calcErr

\* the indices of the reports of a cycle that carry public key k
ReportsFor(k) == {i \in 1..Len(tick.out) : tick.out[i].PublicKey = k}

\* the MB value v is exactly bytes / 1,048,576 (v.den divides 1,048,576)
IsBytes(v, bytes) ==
    /\ v.den > 0
    /\ BytesPerMB % v.den = 0
    /\ v.num * (BytesPerMB \div v.den) = bytes

\* snapshot entry i is the first entry of its public key, the one the cycle
\* computes the key's report from
FirstEntry(i) == \A j \in 1..(i - 1) : tick.peers[j] # tick.peers[i]

\* C1: a cycle that obtains a snapshot emits, for every snapshot key that had
\* no cache entry when the cycle began, a report with both deltas zero, and
\* the cache holds an entry for that key afterwards.
C1_FirstSeenZeroAndCached ==
    CycleDone =>
      \A k \in Range(tick.peers) \ DOMAIN tick.before :
        /\ ReportsFor(k) # {}
        /\ \A i \in ReportsFor(k) :
             IsBytes(tick.out[i].BytesIn, 0) /\ IsBytes(tick.out[i].BytesOut, 0)
        /\ k \in DOMAIN lastReadings

C1_Witness ==
    /\ CycleDone
    /\ \E k \in Range(tick.peers) : k \notin DOMAIN tick.before
    /\ \E k \in Range(tick.peers) : k \in DOMAIN tick.before

\* C2: for a peer with a cached prior reading whose current rx and tx are
\* both at least the prior ones, the report carries exactly
\* current.rx - prior.rx and current.tx - prior.tx bytes.
C2_ExactDeltaWhenMonotonic ==
    CycleDone =>
      \A i \in 1..Len(tick.peers) :
        LET k == tick.peers[i]
            cur == tick.traffic[i]
        IN  (/\ FirstEntry(i)
             /\ k \in DOMAIN tick.before
             /\ cur.rx >= tick.before[k].BytesReceived
             /\ cur.tx >= tick.before[k].BytesTransmitted)
            => /\ Cardinality(ReportsFor(k)) = 1
               /\ \A j \in ReportsFor(k) :
                    /\ IsBytes(tick.out[j].BytesIn,
                               cur.rx - tick.before[k].BytesReceived)
                    /\ IsBytes(tick.out[j].BytesOut,
                               cur.tx - tick.before[k].BytesTransmitted)

C2_Witness ==
    /\ CycleDone
    /\ \E i \in 1..Len(tick.peers) :
         LET k == tick.peers[i]
         IN  /\ FirstEntry(i)
             /\ k \in DOMAIN tick.before
             /\ tick.traffic[i].rx > tick.before[k].BytesReceived
             /\ tick.before[k].BytesReceived > 0
             /\ tick.traffic[i].tx > tick.before[k].BytesTransmitted
             /\ ReportsFor(k) # {}

\* C3: for a peer with a cached prior reading, a direction whose counter is
\* below the prior one reports the current counter value, and a direction
\* whose counter did not decrease reports the true difference; rx and tx are
\* treated independently.
C3_ResetReportsCurrentValue ==
    CycleDone =>
      \A i \in 1..Len(tick.peers) :
        LET k == tick.peers[i]
            cur == tick.traffic[i]
        IN  (FirstEntry(i) /\ k \in DOMAIN tick.before)
            => /\ ReportsFor(k) # {}
               /\ \A j \in ReportsFor(k) :
                 /\ IsBytes(tick.out[j].BytesIn,
                      IF cur.rx < tick.before[k].BytesReceived
                      THEN cur.rx
                      ELSE cur.rx - tick.before[k].BytesReceived)
                 /\ IsBytes(tick.out[j].BytesOut,
                      IF cur.tx < tick.before[k].BytesTransmitted
                      THEN cur.tx
                      ELSE cur.tx - tick.before[k].BytesTransmitted)

C3_Witness ==
    /\ CycleDone
    /\ \E i \in 1..Len(tick.peers) :
         LET k == tick.peers[i]
         IN  /\ FirstEntry(i)
             /\ k \in DOMAIN tick.before
             /\ tick.traffic[i].rx < tick.before[k].BytesReceived
             /\ tick.traffic[i].rx > 0
             /\ tick.traffic[i].tx > tick.before[k].BytesTransmitted
             /\ ReportsFor(k) # {}

\* C4: no emitted report has a negative received or transmitted delta.
C4_NoNegativeDelta ==
    tick.ran =>
      \A i \in 1..Len(tick.out) :
        /\ tick.out[i].BytesIn.den > 0 /\ tick.out[i].BytesIn.num >= 0
        /\ tick.out[i].BytesOut.den > 0 /\ tick.out[i].BytesOut.num >= 0

C4_Witness ==
    /\ CycleDone
    /\ \E i \in 1..Len(tick.peers) :
         LET k == tick.peers[i]
         IN  /\ FirstEntry(i)
             /\ k \in DOMAIN tick.before
             /\ tick.traffic[i].rx < tick.before[k].BytesReceived
             /\ tick.traffic[i].tx < tick.before[k].BytesTransmitted
             /\ ReportsFor(k) # {}

\* C5: a cached key that is absent from a cycle's snapshot is out of the cache
\* when that cycle ends and gets no report; a key gets a report only in a
\* cycle whose snapshot lists it; and a key enters the cache only in a cycle
\* whose snapshot lists it, which reports zero deltas for it and caches the
\* counters it read (so a pruned key stays out until it is seen again, and is
\* then treated as first seen).
C5_PrunedInCycle ==
    /\ CycleDone =>
         \A k \in DOMAIN tick.before \ Range(tick.peers) :
           k \notin DOMAIN lastReadings /\ ReportsFor(k) = {}
    /\ tick.ran =>
         \A i \in 1..Len(tick.out) : tick.out[i].PublicKey \in Range(tick.peers)

C5_ReenterAsFirstSeen ==
    \A k \in Keys :
      (k \notin DOMAIN lastReadings /\ k \in DOMAIN lastReadings')
      => /\ tick'.ran /\ ~tick'.calcErr
         /\ tick'.before = lastReadings
         /\ \E i \in 1..Len(tick'.peers) :
              /\ tick'.peers[i] = k
              /\ \A j \in (i + 1)..Len(tick'.peers) : tick'.peers[j] # k
              /\ lastReadings'[k].BytesReceived = tick'.traffic[i].rx
              /\ lastReadings'[k].BytesTransmitted = tick'.traffic[i].tx
         /\ \E i \in 1..Len(tick'.out) : tick'.out[i].PublicKey = k
         /\ \A i \in 1..Len(tick'.out) :
              tick'.out[i].PublicKey = k
              => IsBytes(tick'.out[i].BytesIn, 0) /\ IsBytes(tick'.out[i].BytesOut, 0)

C5_PrunedUntilReobserved ==
    [](C5_PrunedInCycle) /\ [][C5_ReenterAsFirstSeen]_vars

\* a cycle has just pruned a key whose counters were not zero, while another
\* key stayed
C5_Witness ==
    /\ CycleDone
    /\ \E k \in DOMAIN tick.before \ Range(tick.peers) :
         tick.before[k].BytesReceived > 0
    /\ DOMAIN lastReadings # {}

\* the status query of the provider fails: the daemon is unreachable or the
\* status command exits with an error ("down"), or its output cannot be
\* parsed ("garbage")
ProviderFails == daemon.mode \in {"down", "garbage"}
\* the provider answers and reports a logged-in node
ProviderLoggedIn == daemon.mode = "running"

\* C6: a cycle in which the provider's status query fails (daemon unreachable,
\* or the status command fails) leaves the reading cache as it was and emits
\* no reports.
C6_FailedQueryKeepsCache ==
    (tick.ran /\ ProviderFails) =>
      lastReadings = tick.before /\ tick.out = <<>>

\* C7: GET /health answers 200 "OK" exactly when the provider query succeeds
\* and reports logged-in, and 503 in every other case, whatever the peers.
C7_HealthIffLoggedIn ==
    (resp.served /\ resp.path = "/health") =>
      /\ ~resp.panic
      /\ IF ProviderLoggedIn
         THEN resp.code = 200 /\ resp.body.text = "OK"
         ELSE resp.code = 503

C7_Witness ==
    /\ resp.served /\ resp.path = "/health" /\ resp.method = "GET"
    /\ resp.code = 200
    /\ Len(daemon.peers) > 0

\* C8: in every state of the provider, GET /status ends with a 200 or a 500
\* response; the handler never fails without producing one.
C8_StatusAlwaysAnswers ==
    (resp.served /\ resp.path = "/status" /\ resp.method = "GET") =>
      ~resp.panic /\ resp.code \in {200, 500}

\* C9: when the provider's status query fails, GET /peers answers 500; it
\* answers 200 only when the query to the provider succeeded.
C9_PeersFailureIs500 ==
    (resp.served /\ resp.path = "/peers" /\ resp.method = "GET") =>
      /\ ProviderFails => resp.code = 500
      /\ resp.code = 200 => ~ProviderFails

\* C10: /peer is dispatched on the verb alone: GET answers as GET /peers does
\* in the same provider state, POST and DELETE answer 501, every other verb
\* 405; and no request to /peer changes the reading cache or the provider
\* (its session and its peers).
C10_PeerStep ==
    (resp'.served /\ resp'.path = "/peer") =>
      /\ ~resp.served
      /\ resp'.method = "GET" =>
           LET p == handleGetPeers(Status(daemon))
           IN  resp'.panic = p.panic /\ resp'.code = p.code /\ resp'.body = p.body
      /\ resp'.method \in {"POST", "DELETE"} => ~resp'.panic /\ resp'.code = 501
      /\ resp'.method \notin {"GET", "POST", "DELETE"} =>
           ~resp'.panic /\ resp'.code = 405
      /\ lastReadings' = lastReadings
      /\ daemon' = daemon

C10_PeerByVerbOnly == [][C10_PeerStep]_vars

C10_Witness ==
    /\ resp.served /\ resp.path = "/peer" /\ resp.method = "PUT"
    /\ resp.code = 405
    /\ lastReadings # <<>>
    /\ daemon.peers # <<>>

(***************************************************************************)
(* Properties of the lifecycle (MainSpec).                                 *)
(***************************************************************************)

\* ensureTailscale has gone through all of its steps without an error: the
\* daemon was found running or was started, the login was made or skipped,
\* the status was queried again
BootstrapSucceeded ==
    /\ did \cap {"start_failed", "status_failed", "login_failed", "verify_failed"} = {}
    /\ did \cap {"daemon_running", "daemon_started"} # {}
    /\ did \cap {"login_ok", "already_logged_in"} # {}
    /\ "verified" \in did

\* a Reporter tick or a Status API request is under way or has just ended
Activity == tick.ran \/ push.done \/ resp.served

\* C11: no Reporter tick runs and no Status API request is served before the
\* bootstrap has finished successfully (daemon ensured, authentication done
\* or skipped, verification queried), and a run whose bootstrap ended
\* fatally has started neither the Reporter nor the HTTP server.
C11_NothingBeforeReady ==
    /\ (Activity \/ reporter # "off" \/ server # "off")
         => BootstrapSucceeded /\ pc \in {"serving", "logout", "exited"}
    /\ pc = "fatal" => reporter = "off" /\ server = "off" /\ ~Activity

C11_Witness ==
    /\ tick.ran
    /\ resp = NoResp
    /\ "daemon_started" \in did
    /\ "login_ok" \in did

\* a step that runs a `tailscale up`: it is the step of ensureTailscale that
\* has just queried the status, the query succeeded and said not logged in,
\* and no login was run before
C12_LoginStep ==
    logins' # logins =>
      /\ pc = "auth"
      /\ ~Status(daemon).err
      /\ ~Status(daemon).LoggedIn
      /\ logins = <<>>
      /\ Len(logins') = 1

\* C12: the login operation is issued at most once per process run, only in
\* the Authenticating step and only when that step's status query reported
\* not logged in; when the query reports logged in no login is issued, and
\* after Ready none is issued whatever the provider reports later.
C12_LoginAtMostOnce == [][C12_LoginStep]_vars

C12_Witness ==
    /\ pc = "serving"
    /\ Len(logins) = 1
    /\ daemon.mode = "needslogin"
    /\ resp.served

\* the messages of logger.Fatal for the four causes the claim lists
ListedFatalMessages ==
    {"Failed to load configuration",
     "You must provide either a config file, remote config URL, or Tailscale auth key",
     "Failed to ensure Tailscale: failed to start tailscaled",
     "Failed to ensure Tailscale: failed to login to Tailscale"}

\* C13 as stated: the process exits fatally during startup only for a
\* malformed or unreadable local config, all daemon-start strategies
\* failing, a failed login, or no auth key with no config source; nothing
\* else between config acquisition and Ready ends it, in particular not a
\* failing status query in Authenticating or Verifying.
C13_FatalOnlyForListedCauses ==
    pc = "fatal" => fatalMsg \in ListedFatalMessages

\* a step that ends the process fatally has one of five causes
C13_FatalStep ==
    (pc' = "fatal" /\ pc # "fatal") =>
      \/ pc = "load" /\ cfg.file \in {"unreadable", "malformed"}
      \/ /\ pc = "load"
         /\ cfg.file = "none"
         /\ remoteConfigURL = <<>>
         /\ cfg.authKey = ""
      \/ /\ pc = "ensure"
         /\ ~isTailscaleDaemonRunning(daemon)
         /\ Len(starts') = Len(StartCommands)
         /\ \A i \in 1..Len(starts') : ~starts'[i].ok
      \/ pc = "auth" /\ Len(logins') = Len(logins) + 1 /\ "login_failed" \in did'
      \/ pc \in {"auth", "verify"} /\ daemon.mode = "garbage" /\ logins' = logins

\* C13, amended: the process exits fatally during startup only for a
\* malformed or unreadable local config, all daemon-start strategies
\* failing, a failed login, no auth key with no config source, or a status
\* query of Authenticating or Verifying whose output cannot be parsed; a
\* status command that fails, and a status without self info, end nothing.
C13_FatalCauses == [][C13_FatalStep]_vars

C13_Witness ==
    /\ pc = "fatal"
    /\ "verify_failed" \in did
    /\ "login_ok" \in did

\* C14: if the login operation fails, the process terminates fatally without
\* reaching Ready: no Reporter tick runs, no HTTP request is served and no
\* logout is issued.
C14_FailedLoginIsFatal ==
    "login_failed" \in did =>
      /\ pc = "fatal"
      /\ reporter = "off"
      /\ server = "off"
      /\ ~Activity
      /\ logouts = 0

C14_Witness ==
    /\ "login_failed" \in did
    /\ pc = "fatal"
    /\ fatalMsg = "Failed to ensure Tailscale: failed to login to Tailscale"
    /\ logins = <<"tskey">>

\* C15: in remote-source mode every fetch attempt after the first is
\* separated from the previous one by the 5-second delay: whatever the
\* previous fetch returned without a non-empty auth key (a transport error,
\* an undecodable body, a decodable body with an empty auth key), main is
\* about to fetch again only after it has slept.
C15_RetriesSpaced ==
    (pc = "fetch" /\ loop.fetched) => loop.slept

\* main takes its configuration from the remote source
RemoteMode == cfg.file = "none" /\ remoteConfigURL # <<>>

\* a step of main in remote mode, from the choice of the source on: main
\* stays in the loop, or it goes on to ensureTailscale holding a non-empty
\* auth key (a signal may end the process meanwhile)
C16_LoopStep ==
    (RemoteMode /\ pc \in {"load", "fetch", "sleep"} /\ pc' # pc) =>
      \/ pc' \in {"fetch", "sleep"}
      \/ pc' = "ensure" /\ tsconfig'.AuthKey # ""
      \/ pc' = "killed" /\ UNCHANGED <<tsconfig, loop>>

\* C16: in remote-source mode no number of consecutive fetch failures makes
\* the process exit or go on to DaemonEnsuring; it leaves the retry loop
\* only when it holds a SessionConfig with a non-empty auth key.
C16_LoopUntilAuthKey == [][C16_LoopStep]_vars

C16_Witness ==
    /\ RemoteMode
    /\ pc = "fetch"
    /\ loop.failures = MaxFailures
    /\ loop.slept

\* C17: if none of the three sources resolves to a configuration with a
\* non-empty auth key, startup is fatal: main is never past the choice of its
\* source with an empty auth key, and no login is ever run with one.
C17_NoLoginWithEmptyKey ==
    /\ pc \in {"ensure", "auth", "verify", "ready", "serving", "logout", "exited"}
         => tsconfig.AuthKey # ""
    /\ \A i \in 1..Len(logins) : logins[i] # ""

(***************************************************************************)
(* Properties of the URL clean-up (URLSpec).                               *)
(***************************************************************************)

EndsWith(s, suffix) == TrimSuffix(s, suffix) # s

\* C18: the clean-up maps each of b, b + "/", b + "/gerbil/get-config" and
\* b + "/gerbil/get-config/" to b, for every b that ends in neither a slash
\* nor the suffix, and cleaning a cleaned URL returns it unchanged.
C18_CleanURLCanonical ==
    pc = "load" =>
      /\ \A b \in URLInputs :
           (/\ ~EndsWith(b, Slash)
            /\ ~EndsWith(b, GetConfigSuffix)
            /\ cfg.url \in {b, b \o Slash, b \o GetConfigSuffix,
                            b \o GetConfigSuffix \o Slash})
           => remoteConfigURL = b
      /\ CleanURL(remoteConfigURL) = remoteConfigURL

(***************************************************************************)
(* Properties of the goroutines main starts (MainSpec).                    *)
(***************************************************************************)

\* C19 as stated: in every run that reaches Ready both the Reporter loop and
\* the Status API are started, whichever of the three sources supplied the
\* configuration.
C19_ReadyStartsBoth ==
    Alive(pc) => reporter # "off" /\ server # "off"

\* C19, amended: in every run that reaches Ready the HTTP server of the
\* Status API is started, whichever source supplied the configuration; the
\* Reporter loop is started exactly when the cleaned remote config URL is
\* not empty.
C19_ReadyStartsServer ==
    Alive(pc) =>
      /\ server # "off"
      /\ reporter # "off" <=> remoteConfigURL # <<>>

C19_Witness ==
    /\ pc = "serving"
    /\ cfg.file = "with_authkey"
    /\ remoteConfigURL = BaseURL
    /\ reporter = "running"
    /\ tick.ran

\* the step that ends a tick with an error: the tick made no POST if the
\* snapshot failed and one POST otherwise, the Reporter goes on, and neither
\* the server, nor main, nor the daemon has changed
C20_FailedTickStep ==
    (push'.done /\ ~push.done /\ push'.err) =>
      /\ push'.posts = IF tick.calcErr THEN 0 ELSE 1
      /\ reporter' = "running"
      /\ UNCHANGED <<server, daemon, mainVars>>

\* once started, the Reporter takes its next tick whenever nothing is under
\* way and the process lives
C20_NextTickEnabled ==
    (reporter # "off" /\ Alive(pc) /\ Quiet) => ENABLED reportPeerBandwidth

\* C20: a failing Reporter tick (snapshot error, POST transport error or
\* non-success status) makes at most one POST, does not stop the Reporter
\* loop and does not affect the Status API or the session state; the next
\* tick is attempted however many ticks have failed before.
C20_FailedTickIsSwallowed ==
    [][C20_FailedTickStep]_vars /\ []C20_NextTickEnabled

C20_Witness ==
    /\ push.done
    /\ push.err
    /\ push.post = "non_ok_status"
    /\ push.posts = 1
    /\ pc = "serving"

(***************************************************************************)
(* Properties of the shutdown (MainSpec).                                  *)
(***************************************************************************)

\* C21: once the logout sequence has begun after a termination signal, no
\* new Reporter tick starts and no new Status API request is accepted.  The
\* signal is taken when nothing is under way, so whatever tick or request
\* there is while main is at its logout has begun after the signal.
C21_NothingNewAfterSignal ==
    pc = "logout" => ~tick.ran /\ ~push.done /\ ~resp.served

\* a step of the shutdown: main comes to its logout only from Ready, by the
\* signal; a logout is run only there, it is the first one, and the process
\* ends with it; nothing is run after the end
C22_ShutdownStep ==
    /\ (pc' = "logout" /\ pc # "logout") => pc = "serving"
    /\ logouts' # logouts =>
         /\ pc = "logout"
         /\ logouts = 0
         /\ logouts' = 1
         /\ pc' = "exited"
    /\ pc = "exited" => pc' = "exited" /\ logouts' = logouts

\* C22: from Ready a termination signal leads to exactly one logout followed
\* by the end of the process, whether the logout succeeds or fails; no
\* logout is run before Ready or without a signal.
C22_SignalLeadsToOneLogout ==
    /\ [][C22_ShutdownStep]_vars
    /\ (pc = "logout") ~> (pc = "exited" /\ logouts = 1)

C22_Witness ==
    /\ pc = "exited"
    /\ logouts = 1
    /\ "login_ok" \in did

(***************************************************************************)
(* Properties of the accountant and the notifier (Spec).                   *)
(***************************************************************************)

\* the keys whose membership a cycle changes: those it baselines (in the
\* snapshot, not in the cache before) and those it prunes (in the cache
\* before, not in the snapshot)
MembershipChanges ==
    (Range(tick.peers) \ DOMAIN tick.before) \cup
    (DOMAIN tick.before \ Range(tick.peers))

\* C23: in every accounting cycle the Change Notifier is invoked for each
\* peer the cycle newly baselines and each peer it prunes, so that with a
\* notify URL configured one notification POST is sent per change.
C23_ChangesAreNotified ==
    (CycleDone /\ notifyURL # <<>>) =>
      \A k \in MembershipChanges :
        \E i \in 1..Len(notified) :
          notified[i].publicKey = k /\ notified[i].posts = 1

(***************************************************************************)
(* Properties of the counters (MeterSpec).                                 *)
(***************************************************************************)

\* the report of the cycle for key k carries exactly rx and tx bytes
ReportIs(k, rx, tx) ==
    /\ ReportsFor(k) # {}
    /\ \A i \in ReportsFor(k) :
         IsBytes(tick.out[i].BytesIn, rx) /\ IsBytes(tick.out[i].BytesOut, tx)

\* C24: after a cycle that obtained a snapshot, the cached reading of each
\* snapshot peer equals that peer's rx and tx as the snapshot shows them,
\* and the delta of a peer with a prior reading is computed from the
\* snapshot's counters.
C24_CacheHoldsSnapshot ==
    CycleDone =>
      \A k \in Range(tick.peers) :
        /\ k \in DOMAIN lastReadings
        /\ lastReadings[k].BytesReceived = meter.snap[k].rx
        /\ lastReadings[k].BytesTransmitted = meter.snap[k].tx
        /\ k \in DOMAIN tick.before =>
             ReportIs(k, Delta(meter.snap[k].rx, tick.before[k].BytesReceived),
                         Delta(meter.snap[k].tx, tick.before[k].BytesTransmitted))

\* C27: for a peer that stays in the peer list and whose counters never
\* decrease, the deltas reported over consecutive cycles add up to the
\* growth of its counter; that is so exactly if every cycle that found the
\* peer cached reports the growth since the cycle before, even after a
\* cycle whose traffic query failed.
C27_DeltasTelescope ==
    CycleDone =>
      \A k \in Range(tick.peers) \cap DOMAIN tick.before :
        ReportIs(k, meter.now[k].rx - meter.prior[k].rx,
                    meter.now[k].tx - meter.prior[k].tx)

(***************************************************************************)
(* Properties of the daemon start and of the remote loop (MainSpec).       *)
(***************************************************************************)

\* what ensureTailscale leaves in did once it has queried the status
StatusQueried ==
    {"status_failed", "login_ok", "login_failed", "already_logged_in",
     "verified", "verify_failed"}

\* the start commands run so far: in the order direct start, service manager,
\* service command; each but the last one failed; one that failed was
\* followed by the next; three failures end the run before any status query
\* or login
C25_StartsInOrder ==
    /\ Len(starts) <= Len(StartCommands)
    /\ \A i \in 1..Len(starts) : starts[i].cmd = StartCommands[i]
    /\ \A i \in 1..(Len(starts) - 1) : ~starts[i].ok
    /\ (starts # <<>> /\ ~starts[Len(starts)].ok) => 
         /\ Len(starts) = Len(StartCommands)
         /\ pc = "fatal"
         /\ logins = <<>>
         /\ did \cap StatusQueried = {}

\* the step of DaemonEnsuring: no command is run when the provider answers,
\* at least one when it does not
C25_EnsureStep ==
    (pc = "ensure" /\ pc' \notin {"ensure", "killed"}) =>
      IF daemon.mode # "down"
      THEN starts' = <<>> /\ pc' = "auth"
      ELSE starts' # <<>>

\* C25: when the provider is unreachable at DaemonEnsuring the start
\* strategies are attempted strictly in the order direct process start,
\* service-manager start, alternate service command, strategy k+1 if and
\* only if strategy k failed; if all three fail the run ends fatally without
\* querying the login state or issuing a login; when the provider is
\* reachable no strategy is attempted.
C25_StartStrategies == []C25_StartsInOrder /\ [][C25_EnsureStep]_vars

C25_Witness ==
    /\ Len(starts) = 3
    /\ ~starts[3].ok
    /\ pc = "fatal"

(***************************************************************************)
(* Further properties of the accountant (Spec).                            *)
(***************************************************************************)

\* C26: a cycle that obtained a snapshot emits exactly one report per
\* distinct public key of the snapshot: no key of the snapshot is without a
\* report and none has two, even if the snapshot lists it twice (the second
\* entry finds the reading the first has just cached, no time has elapsed
\* since, and it reports nothing).
C26_OneReportPerKey ==
    CycleDone =>
      /\ \A k \in Range(tick.peers) : Cardinality(ReportsFor(k)) = 1
      /\ Len(tick.out) = Cardinality(Range(tick.peers))

C26_Witness ==
    /\ CycleDone
    /\ Len(tick.peers) = 2
    /\ tick.peers[1] = tick.peers[2]
    /\ tick.peers[1] \in DOMAIN tick.before

\* the last entry of key k in the snapshot of the cycle
LastEntry(k) ==
    CHOOSE i \in 1..Len(tick.peers) :
      /\ tick.peers[i] = k
      /\ \A j \in (i + 1)..Len(tick.peers) : tick.peers[j] # k

\* the cache holds, for every key of the snapshot, the counters the cycle
\* read for it
CacheHoldsTick(readings) ==
    \A k \in Range(tick.peers) :
      /\ k \in DOMAIN readings
      /\ readings[k].BytesReceived = tick.traffic[LastEntry(k)].rx
      /\ readings[k].BytesTransmitted = tick.traffic[LastEntry(k)].tx

\* the step that ends a tick leaves the cache as the cycle left it, holding
\* the readings of the cycle, whatever became of the POST; the step that
\* begins a tick computes from the cache as it finds it
C28_TickStep ==
    /\ (push'.done /\ ~push.done) =>
         /\ lastReadings' = lastReadings
         /\ ~tick.calcErr => CacheHoldsTick(lastReadings')
    /\ (tick'.ran /\ ~tick.ran) => tick'.before = lastReadings

\* C28: the cache mutation of a Reporter tick does not depend on the outcome
\* of the push: after a tick whose POST fails or returns a non-success
\* status the cache holds that tick's readings, so the next tick computes
\* its deltas from them and the deltas of the failed tick are in no later
\* report.
C28_CacheIndependentOfPush == [][C28_TickStep]_vars

C28_Witness ==
    /\ push.done
    /\ push.post = "transport_error"
    /\ \E k \in DOMAIN lastReadings : lastReadings[k].BytesReceived = 1049576

\* C29: the remote loop finishes only with a configuration returned by a
\* fetch that had neither a transport nor a decode error: once main is past
\* the loop in remote mode, the fetch that supplied tsconfig, the last one,
\* returned no error.
C29_ConfigFromCleanFetch ==
    (RemoteMode /\ pc \in {"ensure", "auth", "verify", "ready", "serving",
                           "logout", "exited"})
      => loop.fetched /\ ~loop.err

====
